---- MODULE Spec2Model ----
(***************************************************************************)
(* The patient record store of patient_management.c: the linked list of    *)
(* active patients, the ID counter, and the files patients.dat,            *)
(* patients.tmp, discharged_patients.dat and room_usage.txt.               *)
(*                                                                         *)
(* Every handler is one action.  The results of the library calls the      *)
(* handler makes (fopen, fwrite, fclose, remove, rename) are inputs of the *)
(* action: a call either does its work or fails without effect.  The heap  *)
(* allocation in insertPatientAtEndOfList succeeds in Spec.                *)
(***************************************************************************)
EXTENDS Integers, Sequences, FiniteSets, TLC

\* ---------------------------------------------------------------- bounds
MaxRoom   == 2      \* rooms are 1..MaxRoom (stands for MAX_ROOM_NUMBER)
MaxAdmits == 2      \* calls of addPatientRecord in one run
MaxTime   == 1      \* time(NULL) ranges over 0..MaxTime
MaxFaults == 1      \* failed library calls in one run

\* ------------------------------------------------------- program constants
IS_EMPTY        == 0
DEFAULT_ID      == 1
ROOM_UNOCCUPIED == -1
MIN_ROOM_NUMBER == 1
RecordSize      == 3      \* cells of one Patient written by fwrite

VARIABLES
    patientHead,        \* the linked list, head first: Seq of Patient
    totalPatients,
    patientIDCounter,
    patientsDat,        \* patients.dat
    patientsTmp,        \* patients.tmp
    dischargedDat,      \* discharged_patients.dat
    roomUsage,          \* room_usage.txt
    now,                \* the value time(NULL) returns
    faults,             \* library calls that have failed so far
    admits,             \* calls of addPatientRecord so far
    lastOp              \* the last handler run: its inputs and what it reported

vars == <<patientHead, totalPatients, patientIDCounter, patientsDat, patientsTmp,
          dischargedDat, roomUsage, now, faults, admits, lastOp>>

\* ------------------------------------------------------------------ data
Rooms      == MIN_ROOM_NUMBER..MaxRoom
RoomInputs == 0..(MaxRoom + 1)        \* what the operator may type for a room
Times      == 0..MaxTime

Patient(id, room, adm) == [patientId |-> id, roomNumber |-> room, admissionDate |-> adm]
NoPatient == Patient(0, 0, 0)

\* A file: whether it exists, and its contents.
NoFile        == [exists |-> FALSE, data |-> <<>>]
File(content) == [exists |-> TRUE, data |-> content]

\* fwrite(&p, sizeof(Patient), 1, f): the cells of one record, in field order.
PatientCells(p) == <<p.patientId, p.roomNumber, p.admissionDate>>

CellsToPatient(c) == Patient(c[1], c[2], c[3])

\* -------------------------------------------------- pure helpers of the store

\* A read loop that takes what is left of a cut record as a record, the
\* missing cells read as 0.
RECURSIVE freadPatientsPadded(_)
freadPatientsPadded(cells) ==
    IF cells = <<>> THEN <<>>
    ELSE IF Len(cells) < RecordSize
    THEN <<[patientId |-> cells[1],
            roomNumber |-> IF Len(cells) >= 2 THEN cells[2] ELSE 0,
            admissionDate |-> 0]>>
    ELSE <<[patientId |-> cells[1], roomNumber |-> cells[2], admissionDate |-> cells[3]]>>
         \o freadPatientsPadded(SubSeq(cells, RecordSize + 1, Len(cells)))

\* while(fread(&tempPatient, sizeof(Patient), 1, file) == 1): the complete
\* records of the file, in file order; fewer cells than a record end the loop.
RECURSIVE freadPatients(_)
freadPatients(cells) ==
    IF Len(cells) < RecordSize
    THEN <<>>
    ELSE <<CellsToPatient(SubSeq(cells, 1, RecordSize))>>
         \o freadPatients(SubSeq(cells, RecordSize + 1, Len(cells)))

\* A read loop that starts one cell into the file (no rewind after fgetc).
loadRecordsNoRewind(file) ==
    freadPatients(IF file.data = <<>> THEN <<>> ELSE Tail(file.data))

\* initializePatientSystem reads the records from the start of the file:
\* rewind(file) after the fgetc that looked for EOF, then the read loop.
loadRecords(file) == freadPatients(file.data)

\* A write loop that stops at the last node instead of after it.
RECURSIVE fwritePatientsButLast(_)
fwritePatientsButLast(list) ==
    IF Len(list) <= 1 THEN <<>>
    ELSE <<Head(list).patientId, Head(list).roomNumber, Head(list).admissionDate>>
         \o fwritePatientsButLast(Tail(list))

\* The write loop of updatePatientsFile: every node's record, head first.
RECURSIVE fwritePatients(_)
fwritePatients(list) ==
    IF list = <<>> THEN <<>>
    ELSE PatientCells(Head(list)) \o fwritePatients(Tail(list))

\* An insert that links the new node in front of the list.
insertPatientAtFrontOfList(head, data, mallocOk) ==
    IF ~mallocOk THEN <<>> ELSE <<data>> \o head

\* NULL is the empty list: a list returned by a successful insert is not empty.
insertPatientAtEndOfList(head, data, mallocOk) ==
    IF ~mallocOk THEN <<>> ELSE Append(head, data)

isRoomOccupiedInList(roomNumber, head) ==
    IF \E i \in 1..Len(head) : head[i].roomNumber = roomNumber
    THEN 1 ELSE ROOM_UNOCCUPIED

\* A next ID taken from the number of records instead of their IDs.
computeNextPatientIdByCount(head) == Len(head) + 1

RECURSIVE scanMaxId(_, _)
scanMaxId(list, maxId) ==
    IF list = <<>> THEN maxId
    ELSE scanMaxId(Tail(list),
                   IF Head(list).patientId > maxId THEN Head(list).patientId ELSE maxId)

computeNextPatientId(head) == scanMaxId(head, 0) + 1

\* Index of the first node whose patientId is id; 0 stands for NULL.
getPatientFromList(id, head) ==
    IF \E i \in 1..Len(head) : head[i].patientId = id
    THEN CHOOSE i \in 1..Len(head) :
            /\ head[i].patientId = id
            /\ \A j \in 1..(i - 1) : head[j].patientId # id
    ELSE 0

\* An unlink that looks at the head node only.
unlinkPatientAtHead(head, id) ==
    IF head # <<>> /\ Head(head).patientId = id THEN Tail(head) ELSE head

\* The list part of removePatientFromSystem: unlink the first node with that id.
unlinkPatient(head, id) ==
    LET i == getPatientFromList(id, head)
    IN  IF i = 0 THEN head
        ELSE SubSeq(head, 1, i - 1) \o SubSeq(head, i + 1, Len(head))

validateRoomNumber(roomNumber) ==
    roomNumber >= MIN_ROOM_NUMBER /\ roomNumber <= MaxRoom

\* The admission timestamp is the current time.
createPatient(roomNumber, id) == Patient(id, roomNumber, now)

\* What getRoomNumber answers to one typed room.
roomVerdict(roomNumber, head) ==
    IF ~validateRoomNumber(roomNumber) THEN "invalid"
    ELSE IF isRoomOccupiedInList(roomNumber, head) # ROOM_UNOCCUPIED THEN "occupied"
    ELSE "accepted"

\* getRoomNumber returns on the first accepted room: tries is what the
\* operator typed up to and including it.
getRoomNumber(tries, head) ==
    [i \in 1..Len(tries) |-> [room |-> tries[i], verdict |-> roomVerdict(tries[i], head)]]

\* ------------------------------------------------------------ file layer

\* What the library calls of one updatePatientsFile do: "ok", or the call
\* that fails ("remove_rename_fail": remove and rename both fail).
UpdateOutcomes ==
    {"ok", "tmp_open_fail", "write_fail", "close_fail",
     "remove_fail", "rename_fail", "remove_rename_fail"}

\* write_fail needs a record to write; remove fails with an errno other
\* than ENOENT only on a file that exists.
UpdatePossible(upd, head, dat) ==
    /\ upd = "write_fail" => head # <<>>
    /\ upd \in {"remove_fail", "remove_rename_fail"} => dat.exists

FaultsOf(outcome) ==
    IF outcome \in {"ok", "na"} THEN 0
    ELSE IF outcome = "remove_rename_fail" THEN 2 ELSE 1

\* An updatePatientsFile that does not remove the temporary file it failed
\* to write or close.
updatePatientsFileKeepsTmp(head, dat, tmp, upd) ==
    IF upd = "tmp_open_fail"
    THEN [dat |-> dat, tmp |-> tmp, rewrite |-> "tmp_open_failed"]
    ELSE IF upd \in {"write_fail", "close_fail"}
    THEN [dat |-> dat, tmp |-> File(<<>>),
          rewrite |-> IF upd = "write_fail" THEN "write_failed" ELSE "close_failed"]
    ELSE LET image       == File(fwritePatients(head))
             afterRemove == IF upd \in {"remove_fail", "remove_rename_fail"}
                            THEN dat ELSE NoFile
         IN  IF upd \in {"rename_fail", "remove_rename_fail"}
             THEN [dat |-> afterRemove, tmp |-> image, rewrite |-> "rename_failed"]
             ELSE [dat |-> image, tmp |-> NoFile, rewrite |-> "updated"]

\* updatePatientsFile: patients.dat and patients.tmp after the call, and
\* what it reported.
updatePatientsFile(head, dat, tmp, upd) ==
    IF upd = "tmp_open_fail"
    THEN [dat |-> dat, tmp |-> tmp, rewrite |-> "tmp_open_failed"]
    ELSE IF upd \in {"write_fail", "close_fail"}
    THEN \* write_error = 1: remove("patients.tmp")
         [dat |-> dat, tmp |-> NoFile,
          rewrite |-> IF upd = "write_fail" THEN "write_failed" ELSE "close_failed"]
    ELSE LET image       == File(fwritePatients(head))
             afterRemove == IF upd \in {"remove_fail", "remove_rename_fail"}
                            THEN dat ELSE NoFile
         IN  IF upd \in {"rename_fail", "remove_rename_fail"}
             THEN [dat |-> afterRemove, tmp |-> image, rewrite |-> "rename_failed"]
             ELSE [dat |-> image, tmp |-> NoFile, rewrite |-> "updated"]

\* writePatientToFile: patients.dat after the call and the message printed.
\* fopen(.., "ab") creates the file; the result of fwrite is not looked at.
writePatientToFile(dat, newPatient, app) ==
    IF app = "open_fail"
    THEN [dat |-> dat, result |-> "not_added_to_file"]
    ELSE [dat |-> File(dat.data \o (IF app = "ok" THEN PatientCells(newPatient) ELSE <<>>)),
          result |-> "added_to_file"]

\* A line of room_usage.txt: one that starts with an integer (text is
\* "int"), or one that does not (text is "other").
UsageLine(text, value) == [text |-> text, value |-> value]

\* fprintf(file, "%d\n", roomNumber)
formatRoomLine(roomNumber) == UsageLine("int", roomNumber)

\* logRoomUsage: room_usage.txt after the call.
logRoomUsage(usage, roomNumber, log) ==
    IF log = "open_fail" THEN usage
    ELSE File(Append(usage.data, formatRoomLine(roomNumber)))

\* clearBinaryFile: fopen(fileName, "wb") truncates the file.
clearBinaryFile(file, clr) ==
    IF clr = "open_fail" THEN file ELSE File(<<>>)

\* clearMemory, and initializePatientSystemDefault: the empty store.
clearMemory == [head |-> <<>>, total |-> IS_EMPTY, counter |-> DEFAULT_ID]

initializePatientSystemDefault == [head |-> <<>>, total |-> IS_EMPTY, counter |-> DEFAULT_ID]

\* The read loop of initializePatientSystem from memory state mem: each
\* record read is inserted at the end and counted; the insert numbered
\* failAt (0: none) has its allocation fail, which ends the loop.
RECURSIVE populate(_, _, _, _)
populate(mem, records, n, failAt) ==
    IF records = <<>> THEN [ok |-> TRUE, head |-> mem.head, total |-> mem.total]
    ELSE LET head == insertPatientAtEndOfList(mem.head, Head(records), n # failAt)
         IN  IF head = <<>>
             THEN [ok |-> FALSE, head |-> head, total |-> mem.total]
             ELSE populate([mem EXCEPT !.head = head, !.total = mem.total + 1],
                           Tail(records), n + 1, failAt)

\* ---------------------------------------------------------- file handles
\* The fopen calls that returned a handle and the fclose calls, in order,
\* that a function makes on the path it takes.
fopen(name)  == <<[call |-> "fopen", file |-> name]>>

fclose(name) == <<[call |-> "fclose", file |-> name]>>

writePatientToFileHandles(app) ==
    IF app = "open_fail" THEN <<>>
    ELSE fopen("patients.dat") \o fclose("patients.dat")

\* fclose(pTemp) is called whether or not a write failed.
updatePatientsFileHandles(upd) ==
    IF upd = "tmp_open_fail" THEN <<>>
    ELSE fopen("patients.tmp") \o fclose("patients.tmp")

logRoomUsageHandles(log) ==
    IF log = "open_fail" THEN <<>>
    ELSE fopen("room_usage.txt") \o fclose("room_usage.txt")

clearBinaryFileHandles(clr) ==
    IF clr = "open_fail" THEN <<>>
    ELSE fopen("patients.dat") \o fclose("patients.dat")

\* An archive append that returns on a failed write without closing.
archiveAppendLeaksOnWriteFail(arch) ==
    IF arch \in {"open_fail", "na"} THEN <<>>
    ELSE IF arch = "write_fail" THEN fopen("discharged_patients.dat")
    ELSE fopen("discharged_patients.dat") \o fclose("discharged_patients.dat")

\* The archive append of dischargePatient: the failed write closes the file
\* before it returns.
archiveAppendHandles(arch) ==
    IF arch \in {"open_fail", "na"} THEN <<>>
    ELSE fopen("discharged_patients.dat") \o fclose("discharged_patients.dat")

\* initializePatientSystem: each return that follows the fopen closes the
\* file first; clearBinaryFile runs after the fclose.
initializePatientSystemHandles(result, clr) ==
    IF result = "open_failed" THEN <<>>
    ELSE fopen("patients.dat") \o fclose("patients.dat")
         \o (IF result = "no_valid" THEN clearBinaryFileHandles(clr) ELSE <<>>)

displayPatientReportHandles(out) ==
    IF out = "open_fail" THEN <<>>
    ELSE fopen("patient_reports.txt") \o fclose("patient_reports.txt")

\* counted: countDischargedPatientsByTimeframe opened the archive; listed:
\* printDischargedFormattedReport opened it.
displayDischargedPatientReportHandles(counted, out, listed) ==
    (IF counted THEN fopen("discharged_patients.dat") \o fclose("discharged_patients.dat")
     ELSE <<>>)
    \o (IF out = "open_fail" THEN <<>>
        ELSE fopen("discharged_reports.txt")
             \o (IF listed
                 THEN fopen("discharged_patients.dat") \o fclose("discharged_patients.dat")
                 ELSE <<>>)
             \o fclose("discharged_reports.txt"))

displayRoomUsageReportHandles(opened) ==
    IF opened THEN fopen("room_usage.txt") \o fclose("room_usage.txt") ELSE <<>>

\* ------------------------------------------------------------ the handlers
\* lastOp: the handler that ran last (op) and the one before it (prev), what
\* it reported (result; rewrite for updatePatientsFile), the record it was
\* about, its inputs, for a load the patients.dat it was given (image), and
\* for a report the timeframe asked for (choice), the total it printed
\* (count) and the records it listed (lines), for the usage report its
\* tallies; for an Admit whether the node's allocation succeeded (alloc);
\* the fopen and fclose calls it made, in order (io); and for a Discharge
\* what the operator gave at the confirmation prompt (answer).
OpRecord(op, result) ==
    [op |-> op, prev |-> lastOp.op, result |-> result, rewrite |-> "none",
     patient |-> NoPatient, id |-> 0, tries |-> <<>>, app |-> "na", arch |-> "na",
     log |-> "na", image |-> NoFile, choice |-> 0, count |-> 0, lines |-> <<>>,
     roomCounts |-> <<>>, totalEntries |-> 0, validEntries |-> 0, alloc |-> "na",
     io |-> <<>>, answer |-> "na"]

FirstOp ==
    [op |-> "Init", prev |-> "Init", result |-> "none", rewrite |-> "none",
     patient |-> NoPatient, id |-> 0, tries |-> <<>>, app |-> "na", arch |-> "na",
     log |-> "na", image |-> NoFile, choice |-> 0, count |-> 0, lines |-> <<>>,
     roomCounts |-> <<>>, totalEntries |-> 0, validEntries |-> 0, alloc |-> "na",
     io |-> <<>>, answer |-> "na"]

Init ==
    /\ patientHead = <<>>
    /\ totalPatients = IS_EMPTY
    /\ patientIDCounter = DEFAULT_ID
    /\ patientsDat = NoFile
    /\ patientsTmp = NoFile
    /\ dischargedDat = NoFile
    /\ roomUsage = NoFile
    /\ now = 0
    /\ faults = 0
    /\ admits = 0
    /\ lastOp = FirstOp

\* addPatientRecord, for the rooms typed (tries), the outcome of the append
\* to patients.dat (app) and of the node's allocation.
addPatientRecord(tries, app, mallocOk) ==
    LET asked      == getRoomNumber(tries, patientHead)
        roomNumber == tries[Len(tries)]
        newPatient == createPatient(roomNumber, patientIDCounter)
        written    == writePatientToFile(patientsDat, newPatient, app)
    IN  /\ admits < MaxAdmits
        /\ admits' = admits + 1
        /\ asked[Len(asked)].verdict = "accepted"
        /\ \A i \in 1..(Len(asked) - 1) : asked[i].verdict # "accepted"
        /\ faults + FaultsOf(app) <= MaxFaults
        /\ patientHead' = insertPatientAtEndOfList(patientHead, newPatient, mallocOk)
        /\ totalPatients' = totalPatients + 1
        /\ patientIDCounter' = patientIDCounter + 1
        /\ patientsDat' = written.dat
        /\ faults' = faults + FaultsOf(app)
        /\ lastOp' = [OpRecord("Admit", written.result) EXCEPT
                        !.patient = newPatient, !.tries = asked, !.app = app,
                        !.alloc = IF mallocOk THEN "ok" ELSE "failed",
                        !.io = writePatientToFileHandles(app)]
        /\ UNCHANGED <<patientsTmp, dischargedDat, roomUsage, now>>

\* confirmDischarge: scanf(" %c", &confirm), then confirm == 'y'.  At the end
\* of the input scanf stores nothing and confirm, which was never set, holds
\* whatever its bytes held: stale says whether that is 'y'.
confirmDischarge(answer, stale) ==
    IF answer = "eof" THEN stale ELSE answer = "y"

\* dischargePatient, for the ID typed, what is given at the confirmation
\* prompt ("y", "n" for any other character, "eof" for the end of the
\* input; "na" when the prompt is not reached) with the unset confirm, and
\* the outcomes of the archive append (arch), the usage log append (log)
\* and the rewrite of patients.dat (upd).
dischargePatient(id, answer, stale, arch, log, upd) ==
    LET idx     == getPatientFromList(id, patientHead)
        confirm == confirmDischarge(answer, stale)
    IN  IF patientHead = <<>>
        THEN /\ id = 0 /\ answer = "na" /\ ~stale /\ arch = "na" /\ log = "na" /\ upd = "na"
             /\ lastOp' = OpRecord("Discharge", "no_patients")
             /\ UNCHANGED <<patientHead, totalPatients, patientIDCounter, patientsDat,
                            patientsTmp, dischargedDat, roomUsage, now, faults, admits>>
        ELSE IF idx = 0
        THEN /\ answer = "na" /\ ~stale /\ arch = "na" /\ log = "na" /\ upd = "na"
             /\ lastOp' = [OpRecord("Discharge", "not_found") EXCEPT !.id = id]
             /\ UNCHANGED <<patientHead, totalPatients, patientIDCounter, patientsDat,
                            patientsTmp, dischargedDat, roomUsage, now, faults, admits>>
        ELSE IF ~confirm
        THEN /\ answer # "na" /\ arch = "na" /\ log = "na" /\ upd = "na"
             /\ lastOp' = [OpRecord("Discharge", "cancelled") EXCEPT
                              !.id = id, !.patient = patientHead[idx],
                              !.answer = answer]
             /\ UNCHANGED <<patientHead, totalPatients, patientIDCounter, patientsDat,
                            patientsTmp, dischargedDat, roomUsage, now, faults, admits>>
        ELSE LET patientToDischarge == patientHead[idx]
                 dischargedPatient  == [patient |-> patientToDischarge,
                                        dischargeDate |-> now]
                 done == [OpRecord("Discharge", "discharged") EXCEPT
                             !.id = id, !.patient = patientToDischarge, !.arch = arch,
                             !.io = archiveAppendHandles(arch), !.answer = answer]
             IN  IF arch = "open_fail"
                 THEN /\ log = "na" /\ upd = "na"
                      /\ faults + 1 <= MaxFaults
                      /\ faults' = faults + 1
                      /\ lastOp' = [done EXCEPT !.result = "archive_open_failed"]
                      /\ UNCHANGED <<patientHead, totalPatients, patientIDCounter,
                                     patientsDat, patientsTmp, dischargedDat, roomUsage,
                                     now, admits>>
                 ELSE IF arch = "write_fail"
                 THEN /\ log = "na" /\ upd = "na"
                      /\ faults + 1 <= MaxFaults
                      /\ faults' = faults + 1
                      /\ dischargedDat' = File(dischargedDat.data)
                      /\ lastOp' = [done EXCEPT !.result = "archive_write_failed"]
                      /\ UNCHANGED <<patientHead, totalPatients, patientIDCounter,
                                     patientsDat, patientsTmp, roomUsage, now, admits>>
                 ELSE LET head    == unlinkPatient(patientHead, patientToDischarge.patientId)
                          updated == updatePatientsFile(head, patientsDat, patientsTmp, upd)
                      IN  /\ arch = "ok" /\ log # "na" /\ upd # "na"
                          /\ UpdatePossible(upd, head, patientsDat)
                          /\ faults + FaultsOf(log) + FaultsOf(upd) <= MaxFaults
                          /\ faults' = faults + FaultsOf(log) + FaultsOf(upd)
                          /\ dischargedDat' =
                                File(Append(dischargedDat.data, dischargedPatient))
                          /\ roomUsage' =
                                logRoomUsage(roomUsage, patientToDischarge.roomNumber, log)
                          \* removePatientFromSystem
                          /\ patientHead' = head
                          /\ totalPatients' = totalPatients - 1
                          /\ patientsDat' = updated.dat
                          /\ patientsTmp' = updated.tmp
                          /\ lastOp' = [done EXCEPT
                                          !.log = log, !.rewrite = updated.rewrite,
                                          !.io = archiveAppendHandles(arch)
                                                 \o logRoomUsageHandles(log)
                                                 \o updatePatientsFileHandles(upd)]
                          /\ UNCHANGED <<patientIDCounter, now, admits>>

\* backupPatientSystem
backupPatientSystem(upd) ==
    LET updated == updatePatientsFile(patientHead, patientsDat, patientsTmp, upd)
    IN  /\ UpdatePossible(upd, patientHead, patientsDat)
        /\ faults + FaultsOf(upd) <= MaxFaults
        /\ faults' = faults + FaultsOf(upd)
        /\ patientsDat' = updated.dat
        /\ patientsTmp' = updated.tmp
        /\ lastOp' = [OpRecord("Backup", "backup") EXCEPT
                        !.rewrite = updated.rewrite,
                        !.io = updatePatientsFileHandles(upd)]
        /\ UNCHANGED <<patientHead, totalPatients, patientIDCounter, dischargedDat,
                       roomUsage, now, admits>>

\* initializePatientSystem (restoreDataFromFile), for the outcome of opening
\* patients.dat (open), of clearBinaryFile's open (clr), and the number of
\* the insert whose allocation fails (failAt, 0: none).
initializePatientSystem(open, clr, failAt) ==
    LET cleared == clearMemory
        image   == patientsDat
        loaded  == populate(cleared, loadRecords(image), 1, failAt)
        result  == IF ~image.exists \/ open = "open_fail" THEN "open_failed"
                   ELSE IF image.data = <<>> THEN "empty"
                   ELSE IF ~loaded.ok THEN "alloc_failed"
                   ELSE IF loaded.head = <<>> THEN "no_valid"
                   ELSE "loaded"
        mem     == IF result = "loaded"
                   THEN [head |-> loaded.head, total |-> loaded.total,
                         counter |-> computeNextPatientId(loaded.head)]
                   ELSE initializePatientSystemDefault
        cost    == (IF image.exists THEN FaultsOf(open) ELSE 0)
                   + (IF result = "no_valid" THEN FaultsOf(clr) ELSE 0)
    IN  /\ open = "open_fail" => image.exists
        /\ clr = "open_fail" => result = "no_valid"
        /\ faults + cost <= MaxFaults
        /\ faults' = faults + cost
        /\ patientHead' = mem.head
        /\ totalPatients' = mem.total
        /\ patientIDCounter' = mem.counter
        /\ patientsDat' = IF result = "no_valid" THEN clearBinaryFile(image, clr)
                          ELSE image
        /\ lastOp' = [OpRecord("Restore", result) EXCEPT
                        !.image = image,
                        !.io = initializePatientSystemHandles(result, clr)]
        /\ UNCHANGED <<patientsTmp, dischargedDat, roomUsage, now, admits>>

\* ------------------------------------------------------------ the reports
SECONDS_PER_HOUR == 3600
DAILY_HOURS      == 24
WEEK_DAYS        == 7
SecondsPerDay    == 86400

\* localtime, for a process whose time zone is UTC: tm_year, tm_yday, tm_mon.
LeapYear(y) == (y % 4 = 0 /\ y % 100 # 0) \/ y % 400 = 0

LeapsUpTo(y) == (y \div 4) - (y \div 100) + (y \div 400)

DaysBeforeYear(y) == 365 * (y - 1970) + LeapsUpTo(y - 1) - LeapsUpTo(1969)

\* Days of year y before its month m + 1 (m = 0: January).
DaysBeforeMonth(y, m) ==
    <<0, 31, 59, 90, 120, 151, 181, 212, 243, 273, 304, 334, 365>>[m + 1]
    + (IF m >= 2 /\ LeapYear(y) THEN 1 ELSE 0)

localtime(t) ==
    LET days == t \div SecondsPerDay
        year == CHOOSE y \in (1970 + days \div 366)..(1970 + days \div 365) :
                    DaysBeforeYear(y) <= days /\ days < DaysBeforeYear(y + 1)
        yday == days - DaysBeforeYear(year)
        mon  == CHOOSE m \in 0..11 :
                    DaysBeforeMonth(year, m) <= yday /\ yday < DaysBeforeMonth(year, m + 1)
    IN  [tm_year |-> year - 1900, tm_yday |-> yday, tm_mon |-> mon]

\* int hoursDiff = difftime(now, timestamp) / 3600: the quotient loses its
\* fraction, towards zero.
hoursDiff(current, timestamp) ==
    LET secondsDiff == current - timestamp
    IN  IF secondsDiff >= 0 THEN secondsDiff \div SECONDS_PER_HOUR
        ELSE -((-secondsDiff) \div SECONDS_PER_HOUR)

past24Hours(current, timestamp) == hoursDiff(current, timestamp) <= DAILY_HOURS

sameWeek(current, timestamp) ==
    /\ localtime(timestamp).tm_year = localtime(current).tm_year
    /\ localtime(current).tm_yday - localtime(timestamp).tm_yday < WEEK_DAYS

sameMonth(current, timestamp) ==
    /\ localtime(timestamp).tm_year = localtime(current).tm_year
    /\ localtime(timestamp).tm_mon = localtime(current).tm_mon

\* The test the two counting loops and the two printing loops all make.
inTimeframe(timeframe, current, timestamp) ==
    \/ timeframe = 1 /\ past24Hours(current, timestamp)
    \/ timeframe = 2 /\ sameWeek(current, timestamp)
    \/ timeframe = 3 /\ sameMonth(current, timestamp)

\* The records a loop over records lets through, in the order of the loop;
\* stamp is the field the loop looks at.
RECURSIVE filterByTimeframe(_, _, _, _)
filterByTimeframe(records, stamp, timeframe, current) ==
    IF records = <<>> THEN <<>>
    ELSE (IF inTimeframe(timeframe, current, Head(records)[stamp])
          THEN <<Head(records)>> ELSE <<>>)
         \o filterByTimeframe(Tail(records), stamp, timeframe, current)

countPatientsByTimeframe(timeframe) ==
    IF patientHead = <<>> THEN 0
    ELSE Len(filterByTimeframe(patientHead, "admissionDate", timeframe, now))

\* fopen(.., "rb") of an archive that does not exist fails.
countDischargedPatientsByTimeframe(timeframe, open) ==
    IF ~dischargedDat.exists \/ open = "open_fail" THEN 0
    ELSE Len(filterByTimeframe(dischargedDat.data, "dischargeDate", timeframe, now))

\* printFormattedReport: the records it lists.
printFormattedReport(result, timeframe) ==
    IF result = 0 THEN <<>>
    ELSE filterByTimeframe(patientHead, "admissionDate", timeframe, now)

\* printDischargedFormattedReport: the entries it lists.
printDischargedFormattedReport(result, timeframe, open) ==
    IF result = 0 \/ ~dischargedDat.exists \/ open = "open_fail" THEN <<>>
    ELSE filterByTimeframe(dischargedDat.data, "dischargeDate", timeframe, now)

\* displayPatientReport, for the timeframe chosen and the outcome of opening
\* patient_reports.txt.  The transcript file is written and never read: what
\* is appended to it is what lastOp holds.
displayPatientReport(choice, out) ==
    LET result == countPatientsByTimeframe(choice)
    IN  /\ faults + FaultsOf(out) <= MaxFaults
        /\ faults' = faults + FaultsOf(out)
        /\ lastOp' = IF out = "open_fail"
                     THEN [OpRecord("AdmissionReport", "report_open_failed") EXCEPT
                              !.choice = choice, !.count = result]
                     ELSE [OpRecord("AdmissionReport", "written") EXCEPT
                              !.choice = choice, !.count = result,
                              !.lines = printFormattedReport(result, choice),
                              !.io = displayPatientReportHandles(out)]
        /\ UNCHANGED <<patientHead, totalPatients, patientIDCounter, patientsDat,
                       patientsTmp, dischargedDat, roomUsage, now, admits>>

\* displayDischargedPatientReport, for the timeframe chosen and the outcomes
\* of opening the archive to count (cnt), discharged_reports.txt (out) and
\* the archive to list (rd).
displayDischargedPatientReport(choice, cnt, out, rd) ==
    LET result == countDischargedPatientsByTimeframe(choice, cnt)
        reads  == out = "ok" /\ result # 0
        counted == dischargedDat.exists /\ cnt = "ok"
        cost   == (IF dischargedDat.exists THEN FaultsOf(cnt) ELSE 0) + FaultsOf(out)
                  + (IF reads THEN FaultsOf(rd) ELSE 0)
    IN  /\ cnt = "open_fail" => dischargedDat.exists
        /\ rd = "open_fail" => reads
        /\ faults + cost <= MaxFaults
        /\ faults' = faults + cost
        /\ lastOp' = IF out = "open_fail"
                     THEN [OpRecord("DischargeReport", "report_open_failed") EXCEPT
                              !.choice = choice, !.count = result,
                              !.io = displayDischargedPatientReportHandles(
                                         counted, out, FALSE)]
                     ELSE [OpRecord("DischargeReport",
                                    IF rd = "open_fail" THEN "archive_open_failed"
                                    ELSE "written") EXCEPT
                              !.choice = choice, !.count = result,
                              !.lines = printDischargedFormattedReport(result, choice, rd),
                              !.io = displayDischargedPatientReportHandles(
                                         counted, out, reads /\ rd = "ok")]
        /\ UNCHANGED <<patientHead, totalPatients, patientIDCounter, patientsDat,
                       patientsTmp, dischargedDat, roomUsage, now, admits>>

REPORT_ROOMS == 50

\* The loop while(fscanf(file, "%d", &roomNumber) == 1) of
\* displayRoomUsageReport from tallies acc on: fscanf returns 0 at a line
\* that does not start with an integer, and EOF at the end of the file.
RECURSIVE scanRoomUsage(_, _)
scanRoomUsage(lines, acc) ==
    IF lines = <<>> \/ Head(lines).text # "int" THEN acc
    ELSE LET roomNumber == Head(lines).value
         IN  scanRoomUsage(Tail(lines),
                IF roomNumber >= 1 /\ roomNumber <= REPORT_ROOMS
                THEN [roomCounts   |-> [acc.roomCounts EXCEPT ![roomNumber] = @ + 1],
                      totalEntries |-> acc.totalEntries + 1,
                      validEntries |-> acc.validEntries + 1]
                ELSE [acc EXCEPT !.totalEntries = @ + 1])

\* displayRoomUsageReport, for the outcome of opening room_usage.txt.
displayRoomUsageReport(open) ==
    LET tally == scanRoomUsage(roomUsage.data,
                     [roomCounts   |-> [r \in 1..REPORT_ROOMS |-> 0],
                      totalEntries |-> 0, validEntries |-> 0])
        cost  == IF roomUsage.exists THEN FaultsOf(open) ELSE 0
    IN  /\ open = "open_fail" => roomUsage.exists
        /\ faults + cost <= MaxFaults
        /\ faults' = faults + cost
        /\ lastOp' = IF ~roomUsage.exists \/ open = "open_fail"
                     THEN OpRecord("UsageReport", "usage_open_failed")
                     ELSE [OpRecord("UsageReport", "reported") EXCEPT
                              !.roomCounts = tally.roomCounts,
                              !.totalEntries = tally.totalEntries,
                              !.validEntries = tally.validEntries,
                              !.io = displayRoomUsageReportHandles(TRUE)]
        /\ UNCHANGED <<patientHead, totalPatients, patientIDCounter, patientsDat,
                       patientsTmp, dischargedDat, roomUsage, now, admits>>

\* time(NULL) moves on between two handlers.
Tick ==
    /\ now < MaxTime
    /\ now' = now + 1
    /\ UNCHANGED <<patientHead, totalPatients, patientIDCounter, patientsDat,
                   patientsTmp, dischargedDat, roomUsage, faults, admits, lastOp>>

\* ------------------------------------------------------ the menu's choices
\* The rooms typed in one addPatientRecord: the one accepted, alone or after
\* one that is refused.  The list does not change while getRoomNumber asks,
\* so one refused room stands for any number of them.
RoomTries == {<<r>> : r \in RoomInputs} \cup {<<x, r>> : x \in RoomInputs, r \in RoomInputs}

Admit ==
    \E tries \in RoomTries :
        \E app \in {"ok", "open_fail", "write_fail"} :
            addPatientRecord(tries, app, TRUE)

Discharge ==
    \E id \in 0..(MaxAdmits + 1) : \E answer \in {"na", "y", "n", "eof"} :
      \E stale \in {s \in BOOLEAN : s => answer = "eof"} :
        \E arch \in {"na", "ok", "open_fail", "write_fail"} :
            \E log \in {"na", "ok", "open_fail"} : \E upd \in UpdateOutcomes \cup {"na"} :
                dischargePatient(id, answer, stale, arch, log, upd)

Backup == \E upd \in UpdateOutcomes : backupPatientSystem(upd)

Restore ==
    \E open \in {"ok", "open_fail"} : \E clr \in {"ok", "open_fail"} :
        initializePatientSystem(open, clr, 0)

Next == Admit \/ Discharge \/ Backup \/ Restore \/ Tick

Spec == Init /\ [][Next]_vars

\* --------------------------------------------------- files given at start
MaxFileRecords == 2     \* complete records in a patients.dat found at start

\* Records a run at time 0 can have written.
FilePatients == {Patient(id, room, 0) : id \in 1..MaxAdmits, room \in Rooms}

RECURSIVE RecordsImage(_)
RecordsImage(records) ==
    IF records = <<>> THEN <<>>
    ELSE <<Head(records).patientId, Head(records).roomNumber,
           Head(records).admissionDate>> \o RecordsImage(Tail(records))

\* What is left of a record whose write was cut short.
RecordTails ==
    {SubSeq(RecordsImage(<<p>>), 1, k) : p \in FilePatients, k \in 0..(RecordSize - 1)}

FileImages ==
    {NoFile} \cup
    {File(RecordsImage(rs) \o t) :
        rs \in UNION {[1..n -> FilePatients] : n \in 0..MaxFileRecords},
        t \in RecordTails}

WholeRecords(file) == \E n \in 0..Len(file.data) : Len(file.data) = n * RecordSize

\* The store started in a directory that holds some patients.dat.
InitFile ==
    /\ patientHead = <<>>
    /\ totalPatients = IS_EMPTY
    /\ patientIDCounter = DEFAULT_ID
    /\ patientsDat \in FileImages
    /\ patientsTmp = NoFile
    /\ dischargedDat = NoFile
    /\ roomUsage = NoFile
    /\ now = 0
    /\ faults = 0
    /\ admits = 0
    /\ lastOp = FirstOp

NextFile == Restore \/ Backup

SpecFile == InitFile /\ [][NextFile]_vars

\* Admissions only, into a fresh store.
NextAdmit == Admit \/ Tick

SpecAdmit == Init /\ [][NextAdmit]_vars

\* ------------------------------------------------- reports on given data
MaxReportRecords == 2     \* active records, and archive entries, at a report

\* Times of day at which a report is asked for: 2023-11-14 22:13:20 and
\* 2024-01-01 01:00:00.
ReportTimes == {1700000000, 1704070800}

\* How long before the report a record was stamped, in seconds: from no
\* time at all to 30 hours.
ReportAges == {0, 86400, 86401, 89999, 90000, 108000}

ReportLists(S) == UNION {[1..n -> S] : n \in 0..MaxReportRecords}

\* A report is asked for with some records active and some archived; the
\* same ages are taken for the admission stamps of the active records and
\* for the discharge stamps of the archive entries.
InitReport ==
    /\ now \in ReportTimes
    /\ \E ages \in ReportLists(ReportAges) :
          /\ patientHead = [i \in 1..Len(ages) |-> Patient(i, i, now - ages[i])]
          /\ dischargedDat =
                IF ages = <<>> THEN NoFile
                ELSE File([i \in 1..Len(ages) |->
                              [patient |-> Patient(Len(ages) + i, i, now - 90000),
                               dischargeDate |-> now - ages[i]]])
    /\ totalPatients = Len(patientHead)
    /\ patientIDCounter = DEFAULT_ID + 2 * Len(patientHead)
    /\ patientsDat = NoFile
    /\ patientsTmp = NoFile
    /\ roomUsage = NoFile
    /\ faults = 0
    /\ admits = 0
    /\ lastOp = FirstOp

AdmissionReport ==
    \E choice \in 1..3 : \E out \in {"ok", "open_fail"} :
        displayPatientReport(choice, out)

DischargeReport ==
    \E choice \in 1..3 : \E cnt \in {"ok", "open_fail"} :
        \E out \in {"ok", "open_fail"} : \E rd \in {"ok", "open_fail"} :
            displayDischargedPatientReport(choice, cnt, out, rd)

NextReport == AdmissionReport \/ DischargeReport

SpecReport == InitReport /\ [][NextReport]_vars

\* --------------------------------------------- usage report on a given log
MaxLogLines == 3      \* lines of a room_usage.txt found at a report

\* Lines with a room, with a number that is no room, and with no number.
LogLines ==
    {UsageLine("int", v) : v \in {MIN_ROOM_NUMBER, REPORT_ROOMS, 0, REPORT_ROOMS + 1}}
    \cup {UsageLine("other", 0)}

InitUsage ==
    /\ patientHead = <<>>
    /\ totalPatients = IS_EMPTY
    /\ patientIDCounter = DEFAULT_ID
    /\ patientsDat = NoFile
    /\ patientsTmp = NoFile
    /\ dischargedDat = NoFile
    /\ roomUsage \in {NoFile} \cup
          {File(l) : l \in UNION {[1..n -> LogLines] : n \in 0..MaxLogLines}}
    /\ now = 0
    /\ faults = 0
    /\ admits = 0
    /\ lastOp = FirstOp

UsageReport == \E open \in {"ok", "open_fail"} : displayRoomUsageReport(open)

NextUsage == UsageReport

SpecUsage == InitUsage /\ [][NextUsage]_vars

\* ------------------------------------------------- allocations that fail
\* Admissions and loads in which malloc may return NULL.
AdmitAlloc ==
    \E tries \in RoomTries : \E app \in {"ok", "open_fail", "write_fail"} :
        \E mallocOk \in BOOLEAN :
            addPatientRecord(tries, app, mallocOk)

RestoreAlloc ==
    \E open \in {"ok", "open_fail"} : \E clr \in {"ok", "open_fail"} :
        \E failAt \in 0..MaxAdmits :
            /\ failAt <= Len(loadRecords(patientsDat))
            /\ initializePatientSystem(open, clr, failAt)

NextAlloc == AdmitAlloc \/ RestoreAlloc \/ Tick

SpecAlloc == Init /\ [][NextAlloc]_vars

\* -------------------------------------------- every handler of the menu
\* No handler's calls depend on the time: the clock stands still.
NextHandles ==
    \/ Admit \/ Discharge \/ Backup \/ Restore
    \/ AdmissionReport \/ DischargeReport \/ UsageReport

SpecHandles == Init /\ [][NextHandles]_vars

\* ------------------------------------------------------------------ claims

\* A step of handler op: the handlers leave the clock alone, Tick leaves
\* lastOp alone.
Step(op) == now' = now /\ lastOp'.op = op

\* listing the active collection: the records in the order of the walk
RECURSIVE viewPatientRecords(_)
viewPatientRecords(head) ==
    IF head = <<>> THEN <<>>
    ELSE <<Head(head)>> \o viewPatientRecords(Tail(head))

\* patients.dat holds exactly the in-memory records, in list order.
InSync ==
    /\ WholeRecords(patientsDat)
    /\ freadPatients(patientsDat.data) = patientHead

\* C1: no two records of the in-memory active collection hold the same
\* room number, in any state reachable by Admit, Discharge, Backup and
\* Restore, failed file writes included.
C1_RoomExclusivity ==
    \A i, j \in 1..Len(patientHead) :
        i # j => patientHead[i].roomNumber # patientHead[j].roomNumber

\* C2: the ID given to a newly admitted record differs from the ID of every
\* record active at the call and from the ID of every archive entry.
C2_IdsNeverReused ==
    [][Step("Admit") =>
        /\ \A i \in 1..Len(patientHead) :
              patientHead[i].patientId # lastOp'.patient.patientId
        /\ \A k \in 1..Len(dischargedDat.data) :
              dischargedDat.data[k].patient.patientId # lastOp'.patient.patientId
      ]_vars

\* C3 as claimed: after every successful Admit (the record reached
\* patients.dat) and every successful Discharge (the rewrite completed),
\* patients.dat holds the in-memory collection record for record.
C3_AgreeAfterEverySuccess ==
    (\/ lastOp.op = "Admit" /\ lastOp.app = "ok"
     \/ lastOp.op = "Discharge" /\ lastOp.result = "discharged"
                                /\ lastOp.rewrite = "updated")
    => InSync

\* C3 as amended: a Discharge or Backup whose rewrite completes leaves
\* patients.dat equal to the in-memory collection; a successful Admit keeps
\* the two equal when they were equal before it, and no more.
C3_AgreeAfterRewrite ==
    [][/\ (Step("Discharge") \/ Step("Backup")) /\ lastOp'.rewrite = "updated"
          => InSync'
       /\ Step("Admit") /\ lastOp'.app = "ok" /\ InSync => InSync'
      ]_vars

C3_Witness ==
    /\ lastOp.op = "Discharge"
    /\ lastOp.rewrite = "updated"
    /\ patientHead # <<>>
    /\ patientsDat.data = RecordsImage(patientHead)

\* C4: after a Discharge that went through, the ID is no longer found among
\* the active records, and the archive holds an entry whose snapshot is the
\* removed record and whose discharge time is not before its admission time.
C4_DischargePostcondition ==
    lastOp.op = "Discharge" /\ lastOp.result = "discharged"
    => /\ getPatientFromList(lastOp.id, patientHead) = 0
       /\ \E k \in 1..Len(dischargedDat.data) :
             /\ dischargedDat.data[k].patient = lastOp.patient
             /\ dischargedDat.data[k].dischargeDate >= lastOp.patient.admissionDate

\* C5: a typed room is refused as occupied exactly when an active record
\* holds it at the call, and the room of a record just discharged is one the
\* next Admit accepts.
C5_RoomRefusedIffOccupied ==
    [][/\ Step("Admit") =>
            \A i \in 1..Len(lastOp'.tries) :
                (lastOp'.tries[i].verdict = "occupied")
                <=> (\E k \in 1..Len(patientHead) :
                        patientHead[k].roomNumber = lastOp'.tries[i].room)
       /\ Step("Discharge") /\ lastOp'.result = "discharged" =>
            roomVerdict(lastOp'.patient.roomNumber, patientHead') = "accepted"
      ]_vars

\* C6: admissions with valid, pairwise distinct rooms into a fresh store get
\* the IDs DEFAULT_ID, DEFAULT_ID + 1, ... (each Admit takes the counter and
\* adds one to it), and the listing shows them in admission order.
C6_AdmissionOrder ==
    LET listed == viewPatientRecords(patientHead)
    IN  /\ Len(listed) = admits
        /\ patientIDCounter = DEFAULT_ID + admits
        /\ \A i \in 1..Len(listed) : listed[i].patientId = DEFAULT_ID + i - 1
        /\ \A i, j \in 1..Len(listed) :
              i < j => listed[i].patientId < listed[j].patientId
        /\ lastOp.op = "Admit" => listed[Len(listed)] = lastOp.patient

C6_Witness ==
    /\ Len(patientHead) = MaxAdmits
    /\ lastOp.op = "Admit"
    /\ \A i, j \in 1..Len(patientHead) :
          i # j => patientHead[i].roomNumber # patientHead[j].roomNumber

\* C7: a rewrite leaves patients.dat holding the complete image it had
\* before or the complete in-memory image, whatever fails in it.
C7_AtomicReplace ==
    [][now' = now /\ lastOp'.rewrite # "none" /\ patientsDat.exists =>
          \/ patientsDat' = patientsDat
          \/ patientsDat' = File(RecordsImage(patientHead'))
      ]_vars

\* C8: a rewrite that fails while writing or closing the temporary file
\* leaves patients.dat as it was and no patients.tmp.
C8_FailedRewriteLeavesOriginal ==
    [][now' = now /\ lastOp'.rewrite \in {"write_failed", "close_failed"} =>
          /\ patientsDat' = patientsDat
          /\ ~patientsTmp'.exists
      ]_vars

C8_Witness ==
    /\ lastOp.rewrite \in {"write_failed", "close_failed"}
    /\ patientsDat.exists
    /\ patientsDat.data # <<>>
    /\ patientHead # <<>>
    /\ ~patientsTmp.exists

\* A load that opened patients.dat and read it to its end.
LoadedFile(op) == op.result \in {"loaded", "empty", "no_valid"}

\* A load that read its file, or found none: not one whose open of an
\* existing file failed.
ReadItsFile(op) ==
    LoadedFile(op) \/ (op.result = "open_failed" /\ ~op.image.exists)

\* C9 as claimed: for every patients.dat, a Restore that reads it followed
\* at once by a Backup that replaces it leaves a patients.dat identical to
\* the one that was loaded.
C9_RoundTrip ==
    [][/\ lastOp.op = "Restore" /\ LoadedFile(lastOp)
       /\ Step("Backup") /\ lastOp'.rewrite = "updated"
       => patientsDat' = lastOp.image
      ]_vars

\* C9 as amended: the same, for every patients.dat that holds complete
\* records only (no incomplete record at its end).
C9_RoundTripWholeRecords ==
    [][/\ lastOp.op = "Restore" /\ LoadedFile(lastOp)
       /\ WholeRecords(lastOp.image)
       /\ Step("Backup") /\ lastOp'.rewrite = "updated"
       => patientsDat' = lastOp.image
      ]_vars

C9_Witness ==
    /\ lastOp.op = "Backup" /\ lastOp.prev = "Restore"
    /\ lastOp.rewrite = "updated"
    /\ Len(patientHead) >= 2
    /\ patientsDat.data = RecordsImage(patientHead)

MaxOfIds(head) ==
    CHOOSE m \in {head[i].patientId : i \in 1..Len(head)} :
        \A i \in 1..Len(head) : head[i].patientId <= m

\* C10: a load sets the counter to the largest loaded ID plus one, or to
\* DEFAULT_ID when the file is empty or missing, and a second load right
\* after a load yields the same collection and the same counter.
C10_LoadIdempotent ==
    [][Step("Restore") /\ ReadItsFile(lastOp') =>
          /\ patientIDCounter' = IF patientHead' = <<>> THEN DEFAULT_ID
                                 ELSE MaxOfIds(patientHead') + 1
          /\ lastOp'.image.exists /\ Len(lastOp'.image.data) >= RecordSize
                => patientHead' # <<>>
          /\ lastOp.op = "Restore" /\ ReadItsFile(lastOp) =>
                /\ patientHead' = patientHead
                /\ patientIDCounter' = patientIDCounter
      ]_vars

C10_Witness ==
    /\ lastOp.op = "Restore" /\ lastOp.prev = "Restore"
    /\ lastOp.result = "loaded"
    /\ Len(patientHead) >= 2
    /\ patientIDCounter = MaxOfIds(patientHead) + 1
    /\ patientIDCounter # Len(patientHead) + 1

\* The complete records of a file up to the point where it is cut: record k
\* is the k-th group of RecordSize cells.
CompleteRecords(file) ==
    [k \in 1..(Len(file.data) \div RecordSize) |->
        [patientId     |-> file.data[RecordSize * (k - 1) + 1],
         roomNumber    |-> file.data[RecordSize * (k - 1) + 2],
         admissionDate |-> file.data[RecordSize * (k - 1) + 3]]]

\* C11: a load of a patients.dat that ends in an incomplete record returns
\* (it reports "loaded", or "no valid records") with exactly the complete
\* records before the cut in memory, in file order, counted, and nothing
\* from the cells after them.
C11_TruncatedLoad ==
    [][Step("Restore") /\ LoadedFile(lastOp') /\ ~WholeRecords(lastOp'.image) =>
          /\ lastOp'.result \in {"loaded", "no_valid"}
          /\ patientHead' = CompleteRecords(lastOp'.image)
          /\ totalPatients' = Len(lastOp'.image.data) \div RecordSize
      ]_vars

C11_Witness ==
    /\ lastOp.op = "Restore" /\ lastOp.result = "loaded"
    /\ ~WholeRecords(lastOp.image)
    /\ Len(lastOp.image.data) > 2 * RecordSize
    /\ Len(patientHead) = 2

\* C12: a discharge that goes through appends exactly one entry to the
\* archive and exactly one line with the freed room to the usage log; no
\* other step changes the entries of either file; so the usage log always
\* has as many entries as the archive.
C12_AppendOnlyOnePerDischarge ==
    [][now' = now =>
          /\ IF lastOp'.op = "Discharge" /\ lastOp'.result = "discharged"
             THEN /\ dischargedDat'.data =
                        Append(dischargedDat.data,
                               [patient |-> lastOp'.patient, dischargeDate |-> now])
                  /\ roomUsage'.data =
                        Append(roomUsage.data,
                               UsageLine("int", lastOp'.patient.roomNumber))
             ELSE /\ dischargedDat'.data = dischargedDat.data
                  /\ roomUsage'.data = roomUsage.data
          /\ Len(roomUsage'.data) = Len(dischargedDat'.data)
      ]_vars

\* The records of a list whose stamp lies in the 24 hours before the
\* report: 0 <= now - stamp <= 24 hours.
RECURSIVE WithinLastDay(_, _)
WithinLastDay(records, stamp) ==
    IF records = <<>> THEN <<>>
    ELSE (IF /\ now - Head(records)[stamp] >= 0
             /\ now - Head(records)[stamp] <= 24 * 3600
          THEN <<Head(records)>> ELSE <<>>)
         \o WithinLastDay(Tail(records), stamp)

\* C13: the Daily admission report and the Daily discharge report count and
\* list a record exactly when its timestamp lies in the 24 hours before now.
C13_DailyFilter ==
    /\ lastOp.op = "AdmissionReport" /\ lastOp.choice = 1 /\ lastOp.result = "written"
       => /\ lastOp.lines = WithinLastDay(patientHead, "admissionDate")
          /\ lastOp.count = Len(lastOp.lines)
    /\ lastOp.op = "DischargeReport" /\ lastOp.choice = 1 /\ lastOp.result = "written"
                                     /\ lastOp.count # 0
       => /\ lastOp.lines = WithinLastDay(dischargedDat.data, "dischargeDate")
          /\ lastOp.count = Len(lastOp.lines)

\* The lines of a log that hold the integer r.
LinesOfRoom(log, r) ==
    {i \in 1..Len(log.data) : log.data[i].text = "int" /\ log.data[i].value = r}

\* C14: the usage report goes through every line of the log, whatever the
\* lines that are no integer or no room in 1..50, so the count it reports
\* for a room is the number of lines of the log with that room, and the
\* lines it has read less the valid ones are the invalid lines.
C14_UsageCounts ==
    lastOp.op = "UsageReport" /\ lastOp.result = "reported" =>
        /\ \A r \in 1..50 :
              lastOp.roomCounts[r] = Cardinality(LinesOfRoom(roomUsage, r))
        /\ lastOp.totalEntries = Len(roomUsage.data)
        /\ lastOp.validEntries =
              Cardinality(UNION {LinesOfRoom(roomUsage, r) : r \in 1..50})

\* The step takes record p, the first with its ID, out of the list and
\* counts one record less.
RemovedFromMemory(p) ==
    /\ \E i \in 1..Len(patientHead) :
          /\ patientHead[i] = p
          /\ \A j \in 1..(i - 1) : patientHead[j].patientId # p.patientId
          /\ patientHead' = [k \in 1..(Len(patientHead) - 1) |->
                                IF k < i THEN patientHead[k] ELSE patientHead[k + 1]]
    /\ totalPatients' = totalPatients - 1

C16_AdmitSurvivesFailedAppend ==
    [][Step("Admit") /\ lastOp'.app \in {"open_fail", "write_fail"} =>
          /\ patientHead' = patientHead \o <<lastOp'.patient>>
          /\ totalPatients' = totalPatients + 1
          /\ patientIDCounter' = patientIDCounter + 1
          /\ lastOp'.result = "not_added_to_file"
      ]_vars

\* The record an archive entry is about: its ID and its admission time.
Identity(p) == <<p.patientId, p.admissionDate>>

\* C17: no record that has been discharged (it has an archive entry) is in
\* the active collection again, whatever was admitted, discharged, backed up
\* or restored since, and no record has two archive entries.
C17_DischargeIsFinal ==
    /\ \A i \in 1..Len(patientHead) : \A k \in 1..Len(dischargedDat.data) :
          Identity(patientHead[i]) # Identity(dischargedDat.data[k].patient)
    /\ \A k, l \in 1..Len(dischargedDat.data) :
          k # l => Identity(dischargedDat.data[k].patient)
                      # Identity(dischargedDat.data[l].patient)

\* C18: an Admit in which the allocation of the node fails is given up:
\* the active records, their count and the next-ID counter are after the
\* call what they were before it.
C18_AllocFailureAbortsAdmit ==
    [][Step("Admit") /\ lastOp'.alloc = "failed" =>
          /\ patientHead' = patientHead
          /\ totalPatients' = totalPatients
          /\ patientIDCounter' = patientIDCounter
      ]_vars

\* The files that are open after the calls io, made with the files in
\* open already open: an fclose closes one handle of its file.
RECURSIVE HeldAfter(_, _)
HeldAfter(io, open) ==
    IF io = <<>> THEN open
    ELSE IF Head(io).call = "fopen"
    THEN HeldAfter(Tail(io), Append(open, Head(io).file))
    ELSE LET at == {i \in 1..Len(open) : open[i] = Head(io).file}
         IN  IF at = {} THEN HeldAfter(Tail(io), open)
             ELSE LET i == CHOOSE k \in at : TRUE
                  IN  HeldAfter(Tail(io),
                                SubSeq(open, 1, i - 1) \o SubSeq(open, i + 1, Len(open)))

\* C19: when a handler returns, on whatever path, it has closed every file
\* it opened: no handle is open between two handlers.
C19_HandlesClosed == HeldAfter(lastOp.io, <<>>) = <<>>

C19_Witness ==
    /\ lastOp.op = "Discharge" /\ lastOp.result = "archive_write_failed"
    /\ lastOp.io # <<>>
    /\ HeldAfter(lastOp.io, <<>>) = <<>>

\* C20: the next-ID counter is above the ID of every record in memory and
\* of every record in patients.dat, and the IDs in memory grow strictly
\* along the list, in every state Admit, Discharge, Backup and Restore can
\* reach, failed opens and failed rewrites included.
C20_CounterDominates ==
    /\ \A i \in 1..Len(patientHead) : patientHead[i].patientId < patientIDCounter
    /\ \A k \in 1..Len(freadPatients(patientsDat.data)) :
          freadPatients(patientsDat.data)[k].patientId < patientIDCounter
    /\ \A i, j \in 1..Len(patientHead) :
          i < j => patientHead[i].patientId < patientHead[j].patientId

\* C21: a Discharge with no active record, with an ID that no active
\* record has, or at whose prompt the operator does not give 'y', leaves
\* the list, the count, the counter, patients.dat, the archive and the
\* usage log as they were.
C21_UnconfirmedDischargeChangesNothing ==
    [][Step("Discharge")
       /\ \/ patientHead = <<>>
          \/ getPatientFromList(lastOp'.id, patientHead) = 0
          \/ lastOp'.answer # "y"
       => /\ patientHead' = patientHead
          /\ totalPatients' = totalPatients
          /\ patientIDCounter' = patientIDCounter
          /\ patientsDat' = patientsDat
          /\ dischargedDat' = dischargedDat
          /\ roomUsage' = roomUsage
      ]_vars

====
